---- MODULE Spec2Model ----
(***************************************************************************)
(* Model of Repos.GetSrclibDataVersionForPath and its lookback helper      *)
(* (server/local/repos_srclib_version.go).  One behaviour is one           *)
(* resolution, started after the access check and resolveRepoRev have      *)
(* succeeded.  The handler is cut at its blocking collaborator calls: each *)
(* action is "the pending call returns and the code runs up to the next    *)
(* call it issues (or to its return statement)".                           *)
(***************************************************************************)
EXTENDS Integers, Sequences, FiniteSets, TLC

\* ---- bounds -------------------------------------------------------------
\* number of commits in the repository; commit ids are 1..MaxCommits in
\* creation order, so a parent always has a smaller id than its child
MaxCommits == 4
\* stand-in for the default lookback limit (250 in the source), scaled down
\* so that a history longer than the limit fits in MaxCommits commits
DefaultLookbackLimit == 2

Commits == 1..MaxCommits
\* the empty commit id: "no base"
NoCommit == 0
\* entry.Path values: the empty path, the root "." and a file path
Paths == {"", ".", "p"}
\* values of localcli.Flags.CommitLogCacheSize: unset, and above the default
CacheSizes == {0, DefaultLookbackLimit + 1}

VARIABLES
    parents,              \* commit DAG: commit -> set of parent commits
    touch,                \* commits that modified the file path "p"
    versions,             \* commits of the repo with a srclib version record
    head,                 \* entry.RepoRev.CommitID
    path,                 \* entry.Path
    CommitLogCacheSize,   \* localcli.Flags.CommitLogCacheSize
    pc,                   \* which collaborator call the resolution waits on
    calls,                \* collaborator calls issued so far, in order
    returned,             \* number of collaborator calls that have returned
    base,                 \* local variable base of the lookback
    candidateCommitIDs,   \* local variable candidateCommitIDs
    cancelled,            \* ctx of the request has been cancelled
    cancelledAt,          \* pc at the moment ctx was cancelled ("" if never)
    failed,               \* the collaborator call that returned an error ("" if none)
    result                \* what the resolution returned

vars == <<parents, touch, versions, head, path, CommitLogCacheSize, pc, calls,
          returned, base, candidateCommitIDs, cancelled, cancelledAt, failed, result>>

inputs == <<parents, touch, versions, head, path, CommitLogCacheSize>>

\* ---- commit history (History Provider) -----------------------------------
RECURSIVE AncSelf(_)
\* c and every commit reachable from c through parent links
AncSelf(c) == IF c = NoCommit THEN {} ELSE {c} \cup UNION {AncSelf(p) : p \in parents[c]}

Max(S) == CHOOSE m \in S : \A x \in S : x <= m

RECURSIVE LogOrder(_)
\* the commits of S, most recent first
LogOrder(S) == IF S = {} THEN << >> ELSE <<Max(S)>> \o LogOrder(S \ {Max(S)})

Take(s, n) == IF Len(s) <= n THEN s ELSE SubSeq(s, 1, n)

\* every commit modifies the root; the file path is modified by touch
Modifies(c, Path) == Path \in {"", "."} \/ c \in touch

\* Repos.ListCommits with options Head, Base, Path and PerPage: the commits
\* reachable from Hd (option Head) but not from Base (a git range), restricted to those
\* modifying Path, most recent first, cut to one page.
ListCommits(Hd, Base, Path, PerPage) ==
    Take(LogOrder({c \in AncSelf(Hd) \ AncSelf(Base) : Modifies(c, Path)}), PerPage)

\* ---- Version Store ---------------------------------------------------------
\* Graph.Versions filtered by repo and commit ids
Versions(commitIDs) == {c \in commitIDs : c \in versions}

\* ---- results -----------------------------------------------------------------
NoResult == [kind |-> "none", CommitID |-> NoCommit, CommitsBehind |-> 0, err |-> ""]
Found(kind, c, n) == [kind |-> kind, CommitID |-> c, CommitsBehind |-> n, err |-> ""]
NotFound(reason) == [kind |-> "NotFound", CommitID |-> NoCommit, CommitsBehind |-> 0, err |-> reason]
\* a collaborator error is returned unchanged: a storage/network fault of the
\* named call, or the context error of a call that observed the cancelled ctx
ErrResult(call, e) ==
    [kind |-> IF e = "ctx" THEN "Cancelled" ELSE "Upstream",
     CommitID |-> NoCommit, CommitsBehind |-> 0, err |-> call]

\* outcomes of a call that takes ctx, and of one that does not
CtxCallOutcomes == IF cancelled THEN {"ok", "fault", "ctx"} ELSE {"ok", "fault"}
PlainCallOutcomes == {"ok", "fault"}

Range(s) == {s[i] : i \in 1..Len(s)}

\* ---- the lookback limit ------------------------------------------------------
lookbackLimit ==
    IF CommitLogCacheSize > DefaultLookbackLimit THEN CommitLogCacheSize
    ELSE DefaultLookbackLimit

\* ---- initial states ------------------------------------------------------------
\* histories: a root commit, then every commit has one or two earlier parents
Histories ==
    {h \in [Commits -> SUBSET Commits] :
        \A c \in Commits :
            /\ \A p \in h[c] : p < c
            /\ Cardinality(h[c]) <= 2
            /\ (c > 1 => h[c] # {})}

Init ==
    /\ parents \in Histories
    /\ versions \in SUBSET Commits
    /\ head = MaxCommits
    /\ path \in Paths
    /\ touch \in (IF path = "p" THEN SUBSET Commits ELSE {{}})
    /\ CommitLogCacheSize \in CacheSizes
    /\ pc = "start"
    /\ calls = << >>
    /\ returned = 0
    /\ base = NoCommit
    /\ candidateCommitIDs = << >>
    /\ cancelled = FALSE
    /\ cancelledAt = ""
    /\ failed = ""
    /\ result = NoResult

\* ---- steps of the resolution ------------------------------------------------------
Finish(r) ==
    /\ pc' = "done"
    /\ result' = r
    /\ calls' = calls
    /\ failed' = failed

\* Fail that reports the collaborator error as "not found"
Fail_masked(call, e) ==
    /\ pc' = "done"
    /\ result' = NotFound("exhausted")
    /\ calls' = calls
    /\ failed' = call

\* a collaborator call returned err # nil, which is returned unchanged
Fail(call, e) ==
    /\ pc' = "done"
    /\ result' = ErrResult(call, e)
    /\ calls' = calls
    /\ failed' = call

Issue(call, nextpc) ==
    /\ pc' = nextpc
    /\ calls' = Append(calls, call)
    /\ result' = result
    /\ failed' = failed

\* Scan that keeps the last matching candidate instead of the first
Scan_last(cands, verMap) ==
    IF \E i \in 1..Len(cands) : cands[i] \in verMap
    THEN LET i == CHOOSE j \in 1..Len(cands) :
                      /\ cands[j] \in verMap
                      /\ \A k \in (j+1)..Len(cands) : cands[k] \notin verMap
         IN Found("LookbackHit", cands[i], i - 1)
    ELSE NotFound("exhausted")

\* Scan that falls off the loop without an error when nothing matches
Scan_fallthrough(cands, verMap) ==
    IF \E i \in 1..Len(cands) : cands[i] \in verMap
    THEN LET i == CHOOSE j \in 1..Len(cands) :
                      /\ cands[j] \in verMap
                      /\ \A k \in 1..(j-1) : cands[k] \notin verMap
         IN Found("LookbackHit", cands[i], i - 1)
    ELSE NoResult

\* the scan of candidateCommitIDs against verMap
Scan(cands, verMap) ==
    IF \E i \in 1..Len(cands) : cands[i] \in verMap
    THEN LET i == CHOOSE j \in 1..Len(cands) :
                      /\ cands[j] \in verMap
                      /\ \A k \in 1..(j-1) : cands[k] \notin verMap
         IN Found("LookbackHit", cands[i], i - 1)
    ELSE NotFound("exhausted")

\* Candidates without the base added back
Candidates_nobase(b) == ListCommits(head, b, "", lookbackLimit)

\* the candidate list: one page of the range, with the base added back
Candidates(b) ==
    LET listed == ListCommits(head, b, "", lookbackLimit)
    IN IF b # NoCommit THEN Append(listed, b) ELSE listed

\* ExactMatch testing for more than one version
ExactMatch_many(vers) == Cardinality(vers) > 1

\* did the exact-match query find the version of the head commit
ExactMatch(vers) == Cardinality(vers) = 1

\* LastModifiedByHead with the comparison dropped
LastModifiedByHead_never(h, lastPathCommitID) == FALSE

\* was the path last modified by the head commit itself
LastModifiedByHead(h, lastPathCommitID) == h = lastPathCommitID

\* IsRootPath with the root check dropped
IsRootPath_never(p) == FALSE

\* is entry.Path the root, for which no lookback is done
IsRootPath(p) == p = "."

\* does the lookback look for the last commit touching the path
HasPathBase(p) == p # ""

\* GetSrclibDataVersionForPath issues the exact-match query
Start ==
    /\ pc = "start"
    /\ Issue("VersionsExact", "exactPending")
    /\ UNCHANGED <<inputs, returned, base, candidateCommitIDs, cancelled, cancelledAt>>

\* the exact-match query returns
ReturnExact ==
    /\ pc = "exactPending"
    /\ returned' = returned + 1
    /\ \E o \in PlainCallOutcomes :
         IF o # "ok" THEN Fail("VersionsExact", o)
         ELSE IF ExactMatch(Versions({head})) THEN Finish(Found("Exact", head, 0))
         ELSE IF IsRootPath(path) THEN Finish(NotFound("root"))
         ELSE IF HasPathBase(path) THEN Issue("ListCommitsPath", "pathPending")
         ELSE Issue("ListCommitsRange", "listPending")
    /\ UNCHANGED <<inputs, base, candidateCommitIDs, cancelled, cancelledAt>>

\* the path-history query returns
ReturnPathHistory ==
    /\ pc = "pathPending"
    /\ returned' = returned + 1
    /\ \E o \in CtxCallOutcomes :
         LET lastPathCommit == ListCommits(head, NoCommit, path, 1) IN
         IF o # "ok" THEN Fail("ListCommitsPath", o) /\ base' = base
         ELSE IF Len(lastPathCommit) # 1 THEN Finish(NotFound("nohistory")) /\ base' = base
         ELSE IF LastModifiedByHead(head, lastPathCommit[1]) THEN Finish(NotFound("headIsBoundary")) /\ base' = base
         ELSE Issue("ListCommitsRange", "listPending") /\ base' = lastPathCommit[1]
    /\ UNCHANGED <<inputs, candidateCommitIDs, cancelled, cancelledAt>>

\* the candidate listing returns
ReturnCandidates ==
    /\ pc = "listPending"
    /\ returned' = returned + 1
    /\ \E o \in CtxCallOutcomes :
         IF o # "ok"
         THEN Fail("ListCommitsRange", o) /\ candidateCommitIDs' = candidateCommitIDs
         ELSE Issue("VersionsBatch", "batchPending") /\ candidateCommitIDs' = Candidates(base)
    /\ UNCHANGED <<inputs, base, cancelled, cancelledAt>>

\* the batch-existence query returns
ReturnBatch ==
    /\ pc = "batchPending"
    /\ returned' = returned + 1
    /\ \E o \in PlainCallOutcomes :
         IF o # "ok" THEN Fail("VersionsBatch", o)
         ELSE Finish(Scan(candidateCommitIDs, Versions(Range(candidateCommitIDs))))
    /\ UNCHANGED <<inputs, base, candidateCommitIDs, cancelled, cancelledAt>>

\* the caller cancels ctx while a collaborator call is pending
Cancel ==
    /\ pc \in {"exactPending", "pathPending", "listPending", "batchPending"}
    /\ ~cancelled
    /\ cancelled' = TRUE
    /\ cancelledAt' = pc
    /\ UNCHANGED <<inputs, pc, calls, returned, base, candidateCommitIDs, failed, result>>

Next ==
    \/ Start
    \/ ReturnExact
    \/ ReturnPathHistory
    \/ ReturnCandidates
    \/ ReturnBatch
    \/ Cancel

Spec == Init /\ [][Next]_vars

TypeOK ==
    /\ pc \in {"start", "exactPending", "pathPending", "listPending", "batchPending", "done"}
    /\ base \in Commits \cup {NoCommit}
    /\ result.kind \in {"none", "Exact", "LookbackHit", "NotFound", "Upstream", "Cancelled"}
\* ---- reference notions used by the properties -------------------------------------
RootPaths == {"", "."}
NoFailure == failed = ""
Succeeded == pc = "done" /\ result.kind \in {"Exact", "LookbackHit"}
\* M: the most recent commit at or before head that modified path
\* (NoCommit when no commit in the history of head modified it)
BoundaryM ==
    IF path \in RootPaths THEN head
    ELSE IF AncSelf(head) \cap touch = {} THEN NoCommit
    ELSE Max(AncSelf(head) \cap touch)
\* the history of head is a single line of commits
LinearHistory == \A c \in AncSelf(head) : Cardinality(parents[c]) <= 1
\* number of commits of the history of head that are strict descendants of c
CommitsAhead(c) == Cardinality({d \in AncSelf(head) : d # c /\ c \in AncSelf(d)})
IsPrefix(s, t) == Len(s) <= Len(t) /\ \A i \in 1..Len(s) : s[i] = t[i]
NoneBefore(i) == \A k \in 1..(i-1) : candidateCommitIDs[k] \notin versions

\* C1: for a file path, a returned commit C satisfies M <= C <= head in
\* ancestry order (C is head, or a descendant-or-self of M and an ancestor
\* of head); a commit of the range "reachable from head, not from M" that
\* does not descend from M is never returned.
C1_ResultWithinAncestryWindow ==
    (Succeeded /\ path \notin RootPaths) =>
        \/ result.CommitID = head
        \/ /\ BoundaryM # NoCommit
           /\ BoundaryM \in AncSelf(result.CommitID)
           /\ result.CommitID \in AncSelf(head)

\* C2: if a version record exists at head, the resolution issues the
\* exact-match query first and nothing else, never queries the history, and
\* (unless that query fails) returns head with distance 0, for any path.
C2_ExactMatchPriority ==
    /\ (calls # << >> => calls[1] = "VersionsExact")
    /\ head \in versions =>
          /\ Len(calls) <= 1
          /\ (pc = "done" /\ NoFailure) => result = Found("Exact", head, 0)

C2_Witness ==
    /\ pc = "done" /\ path = "p" /\ head \in versions
    /\ result = Found("Exact", head, 0) /\ calls = <<"VersionsExact">>

\* C3 (as stated): for the root path in both spellings "" and ".", with no
\* exact record at head, the result is NotFound and no query other than the
\* exact-match query is issued.
C3_RootNoLookback_Original ==
    (path \in RootPaths /\ head \notin versions) =>
        /\ Len(calls) <= 1
        /\ (pc = "done" /\ NoFailure) => result.kind = "NotFound"

\* C3 (amended): for the root path spelled ".", with no exact record at
\* head, the result is NotFound and no query other than the exact-match query
\* is issued; the empty path "" is looked back from head without a base.
C3_RootNoLookback ==
    /\ (path = "." /\ head \notin versions) =>
          /\ Len(calls) <= 1
          /\ (pc = "done" /\ NoFailure) => result = NotFound("root")
    /\ (path = "" /\ head \notin versions /\ pc = "done" /\ NoFailure) =>
          /\ calls = <<"VersionsExact", "ListCommitsRange", "VersionsBatch">>
          /\ base = NoCommit

C3_Witness ==
    /\ pc = "done" /\ path = "." /\ head \notin versions
    /\ versions # {} /\ result = NotFound("root")

\* C4: a commit C returned by the lookback has a version record, is a member
\* of the candidate sequence, and no candidate before it in head-to-boundary
\* order has a version record.
C4_NearestWins ==
    (pc = "done" /\ result.kind = "LookbackHit") =>
        /\ result.CommitID \in versions
        /\ \E i \in 1..Len(candidateCommitIDs) :
              /\ candidateCommitIDs[i] = result.CommitID
              /\ NoneBefore(i)

C4_Witness ==
    /\ pc = "done" /\ result.kind = "LookbackHit"
    /\ Cardinality(Range(candidateCommitIDs) \cap versions) >= 2

\* C5: on a linear history, the distance reported with a returned commit C
\* equals the number of commits C lies behind head, also when the candidate
\* list was cut at the lookback limit and C is the boundary commit M.
C5_DistanceIsTrueDistance ==
    (Succeeded /\ path \notin RootPaths /\ LinearHistory) =>
        result.CommitsBehind = CommitsAhead(result.CommitID)

\* C6: for a file path whose boundary commit M differs from head, M is the
\* last element of the candidate sequence sent to the batch query, whatever the
\* limit; if M has a record and no earlier candidate has one, M is returned.
C6_BoundaryAlwaysChecked ==
    (path \notin RootPaths /\ "VersionsBatch" \in Range(calls)) =>
        /\ BoundaryM \notin {NoCommit, head}
        /\ candidateCommitIDs # << >>
        /\ candidateCommitIDs[Len(candidateCommitIDs)] = BoundaryM
        /\ (pc = "done" /\ NoFailure /\ BoundaryM \in versions
              /\ NoneBefore(Len(candidateCommitIDs)))
           => result = Found("LookbackHit", BoundaryM, Len(candidateCommitIDs) - 1)

\* M is returned although it lies beyond the lookback limit
C6_Witness ==
    /\ pc = "done" /\ path = "p" /\ result.kind = "LookbackHit"
    /\ result.CommitID = BoundaryM
    /\ Cardinality(AncSelf(head) \ AncSelf(BoundaryM)) > lookbackLimit

\* C7: for a file path with no exact record at head, if no commit of the
\* history touches the path, or the last one is head itself, the result is
\* NotFound and nothing is queried after the path-history query.
C7_SelfBoundaryShortCircuit ==
    (path \notin RootPaths /\ head \notin versions /\ BoundaryM \in {NoCommit, head}) =>
        /\ IsPrefix(calls, <<"VersionsExact", "ListCommitsPath">>)
        /\ (pc = "done" /\ NoFailure) =>
              /\ calls = <<"VersionsExact", "ListCommitsPath">>
              /\ result = NotFound(IF BoundaryM = head THEN "headIsBoundary" ELSE "nohistory")

C7_Witness ==
    /\ pc = "done" /\ path = "p" /\ BoundaryM = head /\ versions # {}
    /\ result = NotFound("headIsBoundary")

\* C8: if ctx is cancelled while a collaborator call is pending, the
\* resolution ends with the cancellation outcome, never with NotFound, an
\* upstream error or a successful result.
C8_CancellationHonoured ==
    (pc = "done" /\ cancelledAt # "") => result.kind = "Cancelled"

\* C9: a failing collaborator call ends the resolution at once with that
\* failure and its cause, with no further call and never as NotFound; NotFound
\* arises only at the four decision points.
C9_FailurePropagates ==
    /\ failed # "" =>
          /\ pc = "done"
          /\ result.kind \in {"Upstream", "Cancelled"}
          /\ result.err = failed
          /\ calls[Len(calls)] = failed
          /\ (result.kind = "Cancelled" => cancelled)
    /\ result.kind \in {"Upstream", "Cancelled"} => failed # ""
    /\ result.kind = "NotFound" =>
          /\ NoFailure
          /\ head \notin versions
          /\ \/ result.err = "root" /\ path \in RootPaths
             \/ result.err = "nohistory" /\ path \notin RootPaths /\ BoundaryM = NoCommit
             \/ result.err = "headIsBoundary" /\ path \notin RootPaths /\ BoundaryM = head
             \/ /\ result.err = "exhausted"
                /\ calls[Len(calls)] = "VersionsBatch"
                /\ Range(candidateCommitIDs) \cap versions = {}

\* the candidate listing failed after the path-history query succeeded
C9_Witness ==
    /\ pc = "done" /\ failed = "ListCommitsRange" /\ result.kind = "Upstream"
    /\ Len(calls) = 3 /\ versions # {}

C10_Linear ==
    /\ \/ IsPrefix(calls, <<"VersionsExact", "ListCommitsPath", "ListCommitsRange", "VersionsBatch">>)
       \/ IsPrefix(calls, <<"VersionsExact", "ListCommitsRange", "VersionsBatch">>)
    /\ Len(calls) - returned = (IF pc \in {"start", "done"} THEN 0 ELSE 1)
    /\ pc # "done" => result = NoResult
    /\ (pc = "done" /\ NoFailure) => result.kind \in {"Exact", "LookbackHit", "NotFound"}

\* calls issued plus calls returned: at most 4 + 4
Progress == Len(calls) + returned

\* an unfinished resolution waits on the return of the call it issued last
WaitsOnLastCall ==
    pc \notin {"start", "done"} =>
        pc = CASE calls[Len(calls)] = "VersionsExact" -> "exactPending"
               [] calls[Len(calls)] = "ListCommitsPath" -> "pathPending"
               [] calls[Len(calls)] = "ListCommitsRange" -> "listPending"
               [] calls[Len(calls)] = "VersionsBatch" -> "batchPending"

\* a step of the resolution itself (not the caller cancelling ctx)
ResolutionStep == pc' # pc

\* C10: the collaborator calls of a resolution occur in the fixed order
\* exact-match, path-history, candidate listing, batch-existence, each at most
\* once and only after the previous one returned; without a collaborator
\* failure the outcome is Exact, LookbackHit or NotFound.  The resolution
\* terminates: while unfinished it waits on the call it issued last, every
\* step of it advances Progress, which never exceeds 8, and nothing moves it
\* out of "done".
C10_LinearTerminating ==
    /\ [](C10_Linear /\ WaitsOnLastCall)
    /\ [][/\ pc # "done"
          /\ ResolutionStep => (Progress' > Progress /\ Progress' <= 8)]_vars

\* all four calls were made and the scan found a commit
C10_Witness ==
    /\ pc = "done" /\ Len(calls) = 4 /\ returned = 4
    /\ result.kind = "LookbackHit"
====
